---- MODULE Spec2Model ----
(***************************************************************************)
(* Email verification API (src/app.py): the EmailVerifier pipeline         *)
(* (syntax, disposable, role-based, A lookup, MX lookup, SMTP probe,       *)
(* catch-all probe, scoring) and the /api/verify batch handler.            *)
(*                                                                         *)
(* Strings are sequences of one-character strings.  The three values of    *)
(* an SMTP outcome's 'exists' (True, False, None) are written "TRUE",      *)
(* "FALSE" and "UNKNOWN".                                                  *)
(***************************************************************************)
EXTENDS Integers, Sequences, FiniteSets, TLC

\* ------------------------------------------------------------------------
\* Characters and string helpers (str.lower, str.strip, str.split)
\* ------------------------------------------------------------------------

UpperChars ==
  <<"A","B","C","D","E","F","G","H","I","J","K","L","M",
    "N","O","P","Q","R","S","T","U","V","W","X","Y","Z">>

LowerChars ==
  <<"a","b","c","d","e","f","g","h","i","j","k","l","m",
    "n","o","p","q","r","s","t","u","v","w","x","y","z">>

DigitChars == {"0","1","2","3","4","5","6","7","8","9"}

\* [a-zA-Z0-9]
AlnumChars ==
  {UpperChars[k] : k \in 1..Len(UpperChars)} \cup
  {LowerChars[k] : k \in 1..Len(LowerChars)} \cup DigitChars

\* the punctuation of the pattern's local-part class; the grave accent
\* (ASCII 96) cannot be written in a TLA+ string and is named "GRAVE"
LocalPunctChars ==
  {".","!","#","$","%","&","'","*","+","/","=","?","^","_","GRAVE","{","|","}","~","-"}

\* the characters str.strip() removes
WhitespaceChars == {" ", "\t", "\n", "\r", "\f"}

LowerChar(c) ==
  IF \E k \in 1..Len(UpperChars) : UpperChars[k] = c
  THEN LowerChars[CHOOSE k \in 1..Len(UpperChars) : UpperChars[k] = c]
  ELSE c

\* str.lower()
lower(s) == [k \in 1..Len(s) |-> LowerChar(s[k])]

RECURSIVE lstrip(_)
lstrip(s) ==
  IF s # <<>> /\ Head(s) \in WhitespaceChars THEN lstrip(Tail(s)) ELSE s

RECURSIVE rstrip(_)
rstrip(s) ==
  IF s # <<>> /\ s[Len(s)] \in WhitespaceChars
  THEN rstrip(SubSeq(s, 1, Len(s) - 1)) ELSE s

\* str.strip()
strip(s) == rstrip(lstrip(s))

\* str.rstrip('.')
RECURSIVE rstrip_dot(_)
rstrip_dot(s) ==
  IF s # <<>> /\ s[Len(s)] = "."
  THEN rstrip_dot(SubSeq(s, 1, Len(s) - 1)) ELSE s

\* str.startswith(prefix)
startswith(s, prefix) ==
  Len(prefix) <= Len(s) /\ SubSeq(s, 1, Len(prefix)) = prefix

\* str.split(sep): the pieces of s between the occurrences of sep
RECURSIVE split(_, _)
split(s, sep) ==
  IF \E k \in 1..Len(s) : s[k] = sep
  THEN LET k == CHOOSE j \in 1..Len(s) :
                  s[j] = sep /\ \A m \in 1..(j - 1) : s[m] # sep
       IN  <<SubSeq(s, 1, k - 1)>> \o split(SubSeq(s, k + 1, Len(s)), sep)
  ELSE <<s>>

\* ------------------------------------------------------------------------
\* EmailVerifier: static configuration and the pure classifiers
\* ------------------------------------------------------------------------

disposable_domains ==
  { <<"1","0","m","i","n","u","t","e","m","a","i","l",".","c","o","m">>,
    <<"t","e","m","p","m","a","i","l",".","c","o","m">>,
    <<"g","u","e","r","r","i","l","l","a","m","a","i","l",".","c","o","m">>,
    <<"m","a","i","l","i","n","a","t","o","r",".","c","o","m">>,
    <<"t","h","r","o","w","a","w","a","y",".","e","m","a","i","l">>,
    <<"t","e","m","p","-","m","a","i","l",".","o","r","g">>,
    <<"f","a","k","e","i","n","b","o","x",".","c","o","m">>,
    <<"m","a","i","l","d","r","o","p",".","c","c">>,
    <<"g","e","t","n","a","d","a",".","c","o","m">>,
    <<"t","r","a","s","h","m","a","i","l",".","c","o","m">>,
    <<"y","o","p","m","a","i","l",".","c","o","m">>,
    <<"s","h","a","r","k","l","a","s","e","r","s",".","c","o","m">>,
    <<"t","e","m","p","-","m","a","i","l",".","i","o">>,
    <<"m","i","n","t","e","m","a","i","l",".","c","o","m">> }

role_based_prefixes ==
  { <<"a","d","m","i","n">>,
    <<"i","n","f","o">>,
    <<"s","u","p","p","o","r","t">>,
    <<"s","a","l","e","s">>,
    <<"c","o","n","t","a","c","t">>,
    <<"h","e","l","p">>,
    <<"s","e","r","v","i","c","e">>,
    <<"n","o","r","e","p","l","y">>,
    <<"n","o","-","r","e","p","l","y">>,
    <<"w","e","b","m","a","s","t","e","r">>,
    <<"p","o","s","t","m","a","s","t","e","r">>,
    <<"h","o","s","t","m","a","s","t","e","r">>,
    <<"a","b","u","s","e">>,
    <<"p","r","i","v","a","c","y">>,
    <<"s","e","c","u","r","i","t","y">>,
    <<"b","i","l","l","i","n","g">> }

common_catch_all ==
  { <<"g","m","a","i","l",".","c","o","m">>,
    <<"y","a","h","o","o",".","c","o","m">>,
    <<"o","u","t","l","o","o","k",".","c","o","m">>,
    <<"h","o","t","m","a","i","l",".","c","o","m">>,
    <<"a","o","l",".","c","o","m">> }

\* [a-zA-Z0-9 and the local-part punctuation]+
IsLocalPart(s) ==
  Len(s) >= 1 /\ \A k \in 1..Len(s) : s[k] \in AlnumChars \cup LocalPunctChars

\* a pattern whose label may end in a hyphen:
\* [a-zA-Z0-9](?:[a-zA-Z0-9-]{0,62})?
IsLabelLoose(s) ==
  /\ Len(s) >= 1
  /\ s[1] \in AlnumChars
  /\ Len(s) >= 2 =>
       /\ Len(s) - 2 <= 61
       /\ \A k \in 2..Len(s) : s[k] \in AlnumChars \cup {"-"}

\* [a-zA-Z0-9](?:[a-zA-Z0-9-]{0,61}[a-zA-Z0-9])?
IsLabel(s) ==
  /\ Len(s) >= 1
  /\ s[1] \in AlnumChars
  /\ Len(s) >= 2 =>
       /\ Len(s) - 2 <= 61
       /\ s[Len(s)] \in AlnumChars
       /\ \A k \in 2..(Len(s) - 1) : s[k] \in AlnumChars \cup {"-"}

\* label(?:\.label)*
IsDomain(s) ==
  LET labels == split(s, ".")
  IN  \A k \in 1..Len(labels) : IsLabel(labels[k])

\* ^local@domain with nothing after it
MatchesToEnd(s) ==
  \E k \in 1..Len(s) :
     /\ s[k] = "@"
     /\ IsLocalPart(SubSeq(s, 1, k - 1))
     /\ IsDomain(SubSeq(s, k + 1, Len(s)))

\* re.match(pattern, email) is not None; '$' matches at the end of the
\* string and also just before a newline that ends the string
validate_syntax(email) ==
  \/ MatchesToEnd(email)
  \/ /\ email # <<>>
     /\ email[Len(email)] = "\n"
     /\ MatchesToEnd(SubSeq(email, 1, Len(email) - 1))

is_disposable(domain) == lower(domain) \in {lower(d) : d \in disposable_domains}

is_role_based(email) ==
  LET local_part == lower(split(email, "@")[1])
  IN  \E role \in role_based_prefixes :
         local_part = role \/ startswith(local_part, role \o <<".">>)

\* ------------------------------------------------------------------------
\* Values
\* ------------------------------------------------------------------------

\* Python's None where the model holds an integer: an SMTP reply code
\* (codes are three-digit numbers) and a reply text (held by its length)
NoneCode == 0
NoneMsg == -1

\* the exception classes a step of the SMTP dialogue can raise
ProbeExceptions ==
  {"SMTPServerDisconnected", "SMTPConnectError", "socket.timeout",
   "SMTPException", "OSError", "UnicodeDecodeError"}

\* locals that hold nothing yet
NoDns == [valid |-> FALSE, error |-> "unset"]
NoMx == [has_mx |-> FALSE, mx_hosts |-> <<>>, mx_count |-> 0, error |-> "unset"]
NoSmtp == [exists |-> "unset", code |-> NoneCode, message |-> NoneMsg, error |-> "unset"]
NoResult == [email |-> <<>>, status |-> "unset", score |-> 0,
             checks |-> <<>>, issues |-> <<>>]
NoResponse == [http |-> 0, success |-> FALSE, results |-> <<>>, total |-> 0,
               valid |-> 0, invalid |-> 0, risky |-> 0, error |-> "None"]

\* result['checks'][key] = value
SetCheck(r, key, value) ==
  [r EXCEPT !.checks =
     [k \in (DOMAIN r.checks) \cup {key} |-> IF k = key THEN value ELSE r.checks[k]]]

\* result['issues'].append(text)
AddIssue(r, text) == [r EXCEPT !.issues = Append(@, text)]

\* result['score'] += n
AddScore(r, n) == [r EXCEPT !.score = @ + n]

HasCheck(r, key) == key \in DOMAIN r.checks

\* ------------------------------------------------------------------------
\* State
\* ------------------------------------------------------------------------

VARIABLES
  emails,        \* the request's 'emails' list
  i,             \* position of the batch loop (1-based)
  results,       \* the handler's results list
  response,      \* the HTTP response, once sent
  pc,            \* the statement the request is at
  email,         \* verify_email's argument (the stripped address)
  result,        \* verify_email's result dict
  dns_result,    \* verify_email's locals
  mx_result,
  mx_host,
  smtp_result,
  is_catch_all,
  catch_result,  \* check_catch_all's local 'result'
  probe,         \* which call of verify_smtp is active: "real", "synth", "none"
  conn,          \* the SMTP connection of the active call: "none", "open", "closed"
  wire,          \* the replies the mail host gave in the current dialogue
  calls          \* the network operations verify_email has started, in order

vars == <<emails, i, results, response, pc, email, result, dns_result, mx_result,
          mx_host, smtp_result, is_catch_all, catch_result, probe, conn, wire, calls>>

batch_vars == <<emails, i, results, response>>
local_vars == <<dns_result, mx_result, mx_host, smtp_result, is_catch_all, catch_result>>
smtp_vars == <<probe, conn, wire>>

\* ------------------------------------------------------------------------
\* Inputs: the addresses of a request and what the network answers
\* ------------------------------------------------------------------------

\* the largest batch explored
MaxBatch == 2

\* "bob@", " ", " al@ex.io ", "Admin@YopMail.com", "info.x@aol.com"
AddrBadSyntax == <<"b","o","b","@">>
AddrBlank == <<" ">>
AddrPlain == <<" ","a","l","@","e","x",".","i","o"," ">>
AddrRoleDisposable == <<"A","d","m","i","n","@","Y","o","p","M","a","i","l",".","c","o","m">>
AddrCommon == <<"i","n","f","o",".","x","@","a","o","l",".","c","o","m">>
AddrDisposable == <<"j","o","@","y","o","p","m","a","i","l",".","c","o","m">>

Addresses ==
  {AddrBadSyntax, AddrBlank, AddrPlain, AddrRoleDisposable, AddrCommon, AddrDisposable}
BatchAddresses == {AddrBadSyntax, AddrBlank, AddrPlain, AddrRoleDisposable}

\* what resolver.resolve raises, or "ok"
ResolverErrors == {"NXDOMAIN", "NoAnswer", "Timeout", "other"}

\* MX answers in the order the resolver returns them
MxAnswers ==
  { << [preference |-> 10, exchange |-> <<"m","1",".">>] >>,
    << [preference |-> 10, exchange |-> <<"m","1",".">>],
       [preference |-> 20, exchange |-> <<"m","2",".">>] >>,
    << [preference |-> 20, exchange |-> <<"m","2",".">>],
       [preference |-> 10, exchange |-> <<"m","1",".">>] >> }

MxOutcomes(answers, errors) ==
  {[raised |-> "None", answer |-> a] : a \in answers} \cup
  {[raised |-> e, answer |-> <<>>] : e \in errors}

\* what one step of the SMTP dialogue brings: a reply (its code; for RCPT
\* also its text, held by its length and whether it is valid UTF-8) or an
\* exception
Reply(code, len, utf8) == [code |-> code, raised |-> "None", len |-> len, utf8 |-> utf8]
Raise(exc) == [code |-> NoneCode, raised |-> exc, len |-> 0, utf8 |-> TRUE]

\* the exceptions the network raises (UnicodeDecodeError comes from decoding)
NetworkExceptions == ProbeExceptions \ {"UnicodeDecodeError"}

GreetingCodes == {220, 554}
HeloCodes == {250, 501}
MailCodes == {250, 550}
RcptCodes == {250, 251, 550, 551, 553, 554, 450, 451, 452, 421, 252, 552}

Events(codes, excs) ==
  {Reply(c, 0, TRUE) : c \in codes} \cup {Raise(e) : e \in excs}

RcptEvents(codes, excs) ==
  {Reply(c, 12, TRUE) : c \in codes} \cup {Reply(c, 12, FALSE) : c \in codes}
    \cup {Reply(c, 120, TRUE) : c \in {250}} \cup {Raise(e) : e \in excs}

\* ------------------------------------------------------------------------
\* verify_emails: the /api/verify handler
\* ------------------------------------------------------------------------

Requests(pool, n) == UNION {[1..k -> pool] : k \in 0..n}

InitWith(batch) ==
  /\ emails = batch
  /\ i = 0
  /\ results = <<>>
  /\ response = NoResponse
  /\ pc = "request"
  /\ email = <<>>
  /\ result = NoResult
  /\ dns_result = NoDns
  /\ mx_result = NoMx
  /\ mx_host = <<>>
  /\ smtp_result = NoSmtp
  /\ is_catch_all = FALSE
  /\ catch_result = NoSmtp
  /\ probe = "none"
  /\ conn = "none"
  /\ wire = <<>>
  /\ calls = <<>>

\* one request of at most one address
Init == \E batch \in Requests(Addresses, 1) : InitWith(batch)

\* one request of at most MaxBatch addresses
InitBatch == \E batch \in Requests(BatchAddresses, MaxBatch) : InitWith(batch)

CountStatus(rs, st) == Cardinality({k \in 1..Len(rs) : rs[k].status = st})

\* jsonify({'error': 'No emails provided'}), 400
Response400 == [NoResponse EXCEPT !.http = 400, !.error = "No emails provided"]

\* jsonify({'error': str(e)}), 500
Response500(e) == [NoResponse EXCEPT !.http = 500, !.error = e]

\* jsonify({'success': True, 'results': results, ...})
Response200(rs) ==
  [http |-> 200, success |-> TRUE, results |-> rs, total |-> Len(rs),
   valid |-> CountStatus(rs, "valid"), invalid |-> CountStatus(rs, "invalid"),
   risky |-> CountStatus(rs, "risky"), error |-> "None"]

\* lines 290-296
HandleRequest ==
  /\ pc = "request"
  /\ IF emails = <<>>
     THEN /\ response' = Response400
          /\ pc' = "done"
          /\ UNCHANGED <<i, results>>
     ELSE /\ results' = <<>>
          /\ i' = 1
          /\ pc' = "loop"
          /\ UNCHANGED response
  /\ UNCHANGED <<emails, email, result, calls>>
  /\ UNCHANGED local_vars
  /\ UNCHANGED smtp_vars

\* lines 297-301: the next item of the loop; a blank address is passed over,
\* any other starts verify_email (lines 168-174)
NextEmail ==
  /\ pc = "loop"
  /\ i <= Len(emails)
  /\ LET e == strip(emails[i])
     IN  IF e = <<>>
         THEN /\ i' = i + 1
              /\ UNCHANGED <<pc, email, result, calls>>
         ELSE /\ email' = e
              /\ result' = [email |-> e, status |-> "unknown", score |-> 0,
                            checks |-> <<>>, issues |-> <<>>]
              /\ calls' = <<>>
              /\ pc' = "syntax"
              /\ UNCHANGED i
  /\ UNCHANGED <<emails, results, response>>
  /\ UNCHANGED local_vars
  /\ UNCHANGED smtp_vars

\* lines 308-315
Respond ==
  /\ pc = "loop"
  /\ i > Len(emails)
  /\ response' = Response200(results)
  /\ pc' = "done"
  /\ UNCHANGED <<emails, i, results, email, result, calls>>
  /\ UNCHANGED local_vars
  /\ UNCHANGED smtp_vars

\* line 278 or an early return, then lines 302-306: verify_email's locals
\* go out of scope and the result is appended
ReturnResult ==
  /\ pc = "return"
  /\ results' = Append(results, result)
  /\ i' = i + 1
  /\ pc' = "loop"
  /\ dns_result' = NoDns
  /\ mx_result' = NoMx
  /\ mx_host' = <<>>
  /\ smtp_result' = NoSmtp
  /\ is_catch_all' = FALSE
  /\ wire' = <<>>
  /\ conn' = "none"
  /\ UNCHANGED <<emails, response, email, result, calls, catch_result, probe>>

\* ------------------------------------------------------------------------
\* verify_email, stages 1-5
\* ------------------------------------------------------------------------

\* a bug: the failed syntax check is recorded but verify_email goes on
CheckSyntaxGoesOn ==
  /\ pc = "syntax"
  /\ IF ~validate_syntax(email)
     THEN /\ result' = AddIssue(SetCheck([result EXCEPT !.status = "invalid"],
                                         "syntax", FALSE),
                                "Invalid email format")
          /\ pc' = "role"
     ELSE /\ result' = AddScore(SetCheck(result, "syntax", TRUE), 20)
          /\ pc' = "disposable"
  /\ UNCHANGED <<email, calls>>
  /\ UNCHANGED batch_vars
  /\ UNCHANGED local_vars
  /\ UNCHANGED smtp_vars

\* lines 176-184
CheckSyntax ==
  /\ pc = "syntax"
  /\ IF ~validate_syntax(email)
     THEN /\ result' = AddIssue(SetCheck([result EXCEPT !.status = "invalid"],
                                         "syntax", FALSE),
                                "Invalid email format")
          /\ pc' = "return"
     ELSE /\ result' = AddScore(SetCheck(result, "syntax", TRUE), 20)
          /\ pc' = "disposable"
  /\ UNCHANGED <<email, calls>>
  /\ UNCHANGED batch_vars
  /\ UNCHANGED local_vars
  /\ UNCHANGED smtp_vars

\* local_part, domain = email.split('@')
local_part_of(e) == split(e, "@")[1]
domain_of(e) == split(e, "@")[2]

\* lines 186-195
CheckDisposable ==
  /\ pc = "disposable"
  /\ LET is_disp == is_disposable(domain_of(email))
         r == SetCheck(result, "disposable", is_disp)
     IN  result' = IF is_disp
                   THEN AddScore(AddIssue(r, "Disposable email service"), -30)
                   ELSE AddScore(r, 15)
  /\ pc' = "role"
  /\ UNCHANGED <<email, calls>>
  /\ UNCHANGED batch_vars
  /\ UNCHANGED local_vars
  /\ UNCHANGED smtp_vars

\* lines 197-204
CheckRoleBased ==
  /\ pc = "role"
  /\ LET is_role == is_role_based(email)
         r == SetCheck(result, "roleBased", is_role)
     IN  result' = IF is_role
                   THEN AddScore(AddIssue(r, "Role-based email (not personal)"), -10)
                   ELSE AddScore(r, 10)
  /\ pc' = "dns"
  /\ UNCHANGED <<email, calls>>
  /\ UNCHANGED batch_vars
  /\ UNCHANGED local_vars
  /\ UNCHANGED smtp_vars

\* check_dns, lines 49-60: out is "ok" or the error the resolver raises
check_dns(out) ==
  CASE out = "ok"       -> [valid |-> TRUE, error |-> "None"]
    [] out = "NXDOMAIN" -> [valid |-> FALSE, error |-> "Domain does not exist"]
    [] out = "NoAnswer" -> [valid |-> FALSE, error |-> "Domain has no DNS records"]
    [] out = "Timeout"  -> [valid |-> FALSE, error |-> "DNS lookup timeout"]
    [] OTHER            -> [valid |-> FALSE, error |-> "DNS error: " \o out]

\* a bug: the failed A lookup is recorded but verify_email goes on to MX
CheckDnsGoesOn(out) ==
  /\ pc = "dns"
  /\ calls' = Append(calls, "A")
  /\ LET d == check_dns(out)
         r == SetCheck(result, "dns", d.valid)
     IN  /\ dns_result' = d
         /\ IF ~d.valid
            THEN /\ result' = AddIssue([r EXCEPT !.status = "invalid"], d.error)
                 /\ pc' = "mx"
            ELSE /\ result' = AddScore(r, 25)
                 /\ pc' = "mx"
  /\ UNCHANGED email
  /\ UNCHANGED batch_vars
  /\ UNCHANGED <<mx_result, mx_host, smtp_result, is_catch_all, catch_result>>
  /\ UNCHANGED smtp_vars

\* lines 206-214
CheckDns(out) ==
  /\ pc = "dns"
  /\ calls' = Append(calls, "A")
  /\ LET d == check_dns(out)
         r == SetCheck(result, "dns", d.valid)
     IN  /\ dns_result' = d
         /\ IF ~d.valid
            THEN /\ result' = AddIssue([r EXCEPT !.status = "invalid"], d.error)
                 /\ pc' = "return"
            ELSE /\ result' = AddScore(r, 25)
                 /\ pc' = "mx"
  /\ UNCHANGED email
  /\ UNCHANGED batch_vars
  /\ UNCHANGED <<mx_result, mx_host, smtp_result, is_catch_all, catch_result>>
  /\ UNCHANGED smtp_vars

NoMxBecause(e) == [has_mx |-> FALSE, mx_hosts |-> <<>>, mx_count |-> 0, error |-> e]

\* check_mx_records, lines 62-83: out is the resolver's answer (a sequence of
\* MX records, never empty: an empty answer is raised as NoAnswer) or the
\* error it raises
check_mx_records(out) ==
  CASE out.raised = "None" ->
         LET mx_hosts == [k \in 1..Len(out.answer) |->
                            rstrip_dot(out.answer[k].exchange)]
         IN  [has_mx |-> TRUE, mx_hosts |-> mx_hosts, mx_count |-> Len(mx_hosts),
              error |-> "None"]
    [] out.raised = "NXDOMAIN" -> NoMxBecause("Domain does not exist")
    [] out.raised = "NoAnswer" -> NoMxBecause("No MX records found")
    [] out.raised = "Timeout"  -> NoMxBecause("MX lookup timeout")
    [] OTHER -> NoMxBecause("MX lookup error: " \o out.raised)

\* a pipeline that takes a failed MX lookup for a soft failure and goes on
CheckMxGoesOn(out) ==
  /\ pc = "mx"
  /\ calls' = Append(calls, "MX")
  /\ LET m == check_mx_records(out)
         r == SetCheck(result, "hasMX", m.has_mx)
     IN  /\ mx_result' = m
         /\ IF ~m.has_mx
            THEN /\ result' = AddIssue(r, m.error)
                 /\ pc' = "score"
            ELSE /\ result' = AddScore(r, 25)
                 /\ pc' = "smtp"
  /\ UNCHANGED email
  /\ UNCHANGED batch_vars
  /\ UNCHANGED <<dns_result, mx_host, smtp_result, is_catch_all, catch_result>>
  /\ UNCHANGED smtp_vars

\* lines 216-225
CheckMx(out) ==
  /\ pc = "mx"
  /\ calls' = Append(calls, "MX")
  /\ LET m == check_mx_records(out)
         r == SetCheck(result, "hasMX", m.has_mx)
     IN  /\ mx_result' = m
         /\ IF ~m.has_mx
            THEN /\ result' = AddIssue([r EXCEPT !.status = "invalid"],
                                       IF m.error # "None" THEN m.error
                                       ELSE "No mail servers configured")
                 /\ pc' = "return"
            ELSE /\ result' = AddScore(r, 25)
                 /\ pc' = "smtp"
  /\ UNCHANGED email
  /\ UNCHANGED batch_vars
  /\ UNCHANGED <<dns_result, mx_host, smtp_result, is_catch_all, catch_result>>
  /\ UNCHANGED smtp_vars

\* ------------------------------------------------------------------------
\* verify_smtp (lines 85-151), one step per command of the dialogue
\* ------------------------------------------------------------------------

\* lines 137-151: the except clause that catches exc, by its class
ExceptResult(exc) ==
  [exists |-> "UNKNOWN", code |-> NoneCode, message |-> NoneMsg,
   error |->
     CASE exc = "SMTPServerDisconnected" -> "Server disconnected during verification"
       [] exc = "SMTPConnectError" -> "Could not connect to mail server: " \o exc
       [] exc = "socket.timeout"   -> "Connection timeout"
       [] exc = "SMTPException"    -> "SMTP error: " \o exc
       [] OTHER                    -> "Unexpected error: " \o exc]

\* lines 100-135: the classification of the RCPT reply
rcpt_result(code, msg_str) ==
  CASE code = 250 ->
         [exists |-> "TRUE", code |-> code, message |-> msg_str, error |-> "None"]
    [] code = 251 ->
         [exists |-> "TRUE", code |-> code, message |-> msg_str, error |-> "None"]
    [] code \in {550, 551, 553, 554} ->
         [exists |-> "FALSE", code |-> code, message |-> msg_str,
          error |-> "Mailbox does not exist"]
    [] code \in {450, 451, 452, 421} ->
         [exists |-> "UNKNOWN", code |-> code, message |-> msg_str,
          error |-> "Temporary failure (greylisting or rate limit)"]
    [] OTHER ->
         [exists |-> "UNKNOWN", code |-> code, message |-> msg_str,
          error |-> "Uncertain response code: " \o ToString(code)]

\* a verify_smtp that returns without leaving the with block: the connection
\* stays as the dialogue left it
VerifySmtpReturnLeavesOpen(r) ==
  /\ UNCHANGED conn
  /\ IF probe = "real"
     THEN /\ smtp_result' = r
          /\ pc' = "record"
          /\ UNCHANGED catch_result
     ELSE /\ catch_result' = r
          /\ pc' = "catch_return"
          /\ UNCHANGED smtp_result

\* verify_smtp returns r to its caller; leaving the with block closes the
\* connection
VerifySmtpReturn(r) ==
  /\ conn' = "closed"
  /\ IF probe = "real"
     THEN /\ smtp_result' = r
          /\ pc' = "record"
          /\ UNCHANGED catch_result
     ELSE /\ catch_result' = r
          /\ pc' = "catch_return"
          /\ UNCHANGED smtp_result

\* a command whose reply the code does not look at: any reply goes on to the
\* next command, an exception ends the call
DialogueStep(cmd, ev, next) ==
  /\ wire' = Append(wire, [cmd |-> cmd, code |-> ev.code, raised |-> ev.raised,
                           utf8 |-> ev.utf8])
  /\ IF ev.raised # "None"
     THEN VerifySmtpReturn(ExceptResult(ev.raised))
     ELSE /\ conn' = "open"
          /\ pc' = next
          /\ UNCHANGED <<smtp_result, catch_result>>

\* lines 228-229, 87-88: the probe of the address itself, at the first host
CallVerifySmtp ==
  /\ pc = "smtp"
  /\ mx_host' = mx_result.mx_hosts[1]
  /\ probe' = "real"
  /\ conn' = "none"
  /\ wire' = <<>>
  /\ pc' = "smtp_connect"
  /\ UNCHANGED <<email, result, calls>>
  /\ UNCHANGED batch_vars
  /\ UNCHANGED <<dns_result, mx_result, smtp_result, is_catch_all, catch_result>>

\* line 89: smtp.connect(mx_host)
SmtpConnect(ev) ==
  /\ pc = "smtp_connect"
  /\ calls' = Append(calls, IF probe = "real" THEN "SMTP" ELSE "SMTP-CATCHALL")
  /\ DialogueStep("CONNECT", ev, "smtp_helo")
  /\ UNCHANGED <<email, result, probe>>
  /\ UNCHANGED batch_vars
  /\ UNCHANGED <<dns_result, mx_result, mx_host, is_catch_all>>

\* line 92: smtp.helo(...)
SmtpHelo(ev) ==
  /\ pc = "smtp_helo"
  /\ DialogueStep("HELO", ev, "smtp_mail")
  /\ UNCHANGED <<email, result, calls, probe>>
  /\ UNCHANGED batch_vars
  /\ UNCHANGED <<dns_result, mx_result, mx_host, is_catch_all>>

\* line 93: smtp.mail(...)
SmtpMail(ev) ==
  /\ pc = "smtp_mail"
  /\ DialogueStep("MAIL", ev, "smtp_rcpt")
  /\ UNCHANGED <<email, result, calls, probe>>
  /\ UNCHANGED batch_vars
  /\ UNCHANGED <<dns_result, mx_result, mx_host, is_catch_all>>

\* lines 96-135: smtp.rcpt(email), message.decode(), the classification
SmtpRcpt(ev) ==
  /\ pc = "smtp_rcpt"
  /\ wire' = Append(wire, [cmd |-> "RCPT", code |-> ev.code, raised |-> ev.raised,
                           utf8 |-> ev.utf8])
  /\ VerifySmtpReturn(
       IF ev.raised # "None" THEN ExceptResult(ev.raised)
       ELSE IF ~ev.utf8 THEN ExceptResult("UnicodeDecodeError")
       ELSE rcpt_result(ev.code, ev.len))
  /\ UNCHANGED <<email, result, calls, probe>>
  /\ UNCHANGED batch_vars
  /\ UNCHANGED <<dns_result, mx_result, mx_host, is_catch_all>>

\* ------------------------------------------------------------------------
\* verify_email, stages 6-7 and the scoring
\* ------------------------------------------------------------------------

\* text[:100]
Truncate(len) == IF len > 100 THEN 100 ELSE len
\* a pipeline that probes the address once more after a transient reply
RecordSmtpRetries ==
  /\ pc = "record"
  /\ probe' = "none"
  /\ LET r == SetCheck(SetCheck(result, "smtp", smtp_result.exists),
                       "smtpCode", smtp_result.code)
     IN  IF smtp_result.message = NoneMsg
         THEN /\ result' = r
              /\ response' = Response500("'NoneType' object is not subscriptable")
              /\ pc' = "done"
         ELSE /\ result' = SetCheck(r, "smtpMessage", Truncate(smtp_result.message))
              /\ pc' = IF smtp_result.code \in {450, 451, 452, 421} /\ Len(calls) < 4
                       THEN "smtp" ELSE "catch_all"
              /\ UNCHANGED response
  /\ UNCHANGED <<emails, i, results, email, calls, conn, wire>>
  /\ UNCHANGED local_vars

\* lines 231-233.  smtp_result always has the key 'message', so
\* .get('message', '') is None after an exception and None[:100] raises
\* TypeError; verify_emails catches it at line 317 and answers 500
RecordSmtp ==
  /\ pc = "record"
  /\ probe' = "none"
  /\ LET r == SetCheck(SetCheck(result, "smtp", smtp_result.exists),
                       "smtpCode", smtp_result.code)
     IN  IF smtp_result.message = NoneMsg
         THEN /\ result' = r
              /\ response' = Response500("'NoneType' object is not subscriptable")
              /\ pc' = "done"
         ELSE /\ result' = SetCheck(r, "smtpMessage", Truncate(smtp_result.message))
              /\ pc' = "catch_all"
              /\ UNCHANGED response
  /\ UNCHANGED <<emails, i, results, email, calls, conn, wire>>
  /\ UNCHANGED local_vars

\* a fail-open detector: anything but a rejection counts as catch-all
check_catch_all_fail_open(r) == r.exists # "FALSE"

\* check_catch_all(r): line 162, on the outcome r of the synthetic probe
check_catch_all(r) == r.exists = "TRUE"

\* lines 236, 158-160: the probe of the synthetic address at the same host
CallCatchAll ==
  /\ pc = "catch_all"
  /\ probe' = "synth"
  /\ conn' = "none"
  /\ wire' = <<>>
  /\ pc' = "smtp_connect"
  /\ UNCHANGED <<email, result, calls>>
  /\ UNCHANGED batch_vars
  /\ UNCHANGED local_vars

\* lines 162, 236-237
CatchAllReturn ==
  /\ pc = "catch_return"
  /\ is_catch_all' = check_catch_all(catch_result)
  /\ result' = SetCheck(result, "catchAll", check_catch_all(catch_result))
  /\ catch_result' = NoSmtp
  /\ probe' = "none"
  /\ pc' = "score"
  /\ UNCHANGED <<email, calls, conn, wire>>
  /\ UNCHANGED batch_vars
  /\ UNCHANGED <<dns_result, mx_result, mx_host, smtp_result>>

\* a scoring bug: on a catch-all domain a rejected mailbox gets the minimal
\* credit and goes on to the thresholds
score_smtp_reject_scored(r, sr, catch_all) ==
  IF catch_all
  THEN LET r1 == AddScore(AddIssue(r,
                    "Catch-all domain - cannot verify individual mailbox"), -20)
       IN  CASE sr.exists = "TRUE" ->
                  [result |-> AddScore(r1, 10), next |-> "status"]
             [] OTHER ->
                  [result |-> AddIssue(AddScore(r1, 5), sr.error), next |-> "status"]
  ELSE CASE sr.exists = "TRUE" ->
              [result |-> AddScore(r, 30), next |-> "status"]
         [] sr.exists = "FALSE" ->
              [result |-> AddIssue([r EXCEPT !.status = "invalid"], sr.error),
               next |-> "return"]
         [] OTHER ->
              [result |-> AddScore(AddIssue(r, sr.error), 10), next |-> "status"]

\* a scoring bug: the two credits of an uncertain probe are swapped
score_smtp_credits_swapped(r, sr, catch_all) ==
  IF catch_all
  THEN LET r1 == AddScore(AddIssue(r,
                    "Catch-all domain - cannot verify individual mailbox"), -20)
       IN  CASE sr.exists = "TRUE" ->
                  [result |-> AddScore(r1, 10), next |-> "status"]
             [] sr.exists = "FALSE" ->
                  [result |-> AddIssue([r1 EXCEPT !.status = "invalid"],
                                       "Mailbox rejected even on catch-all domain"),
                   next |-> "return"]
             [] OTHER ->
                  [result |-> AddIssue(AddScore(r1, 10), sr.error), next |-> "status"]
  ELSE CASE sr.exists = "TRUE" ->
              [result |-> AddScore(r, 30), next |-> "status"]
         [] sr.exists = "FALSE" ->
              [result |-> AddIssue([r EXCEPT !.status = "invalid"], sr.error),
               next |-> "return"]
         [] OTHER ->
              [result |-> AddScore(AddIssue(r, sr.error), 5), next |-> "status"]

\* a scoring bug: an accepted mailbox gets the full credit on a catch-all
\* domain too
score_smtp_full_credit(r, sr, catch_all) ==
  IF catch_all
  THEN LET r1 == AddScore(AddIssue(r,
                    "Catch-all domain - cannot verify individual mailbox"), -20)
       IN  CASE sr.exists = "TRUE" ->
                  [result |-> AddScore(r1, 30), next |-> "status"]
             [] sr.exists = "FALSE" ->
                  [result |-> AddIssue([r1 EXCEPT !.status = "invalid"],
                                       "Mailbox rejected even on catch-all domain"),
                   next |-> "return"]
             [] OTHER ->
                  [result |-> AddIssue(AddScore(r1, 5), sr.error), next |-> "status"]
  ELSE CASE sr.exists = "TRUE" ->
              [result |-> AddScore(r, 30), next |-> "status"]
         [] sr.exists = "FALSE" ->
              [result |-> AddIssue([r EXCEPT !.status = "invalid"], sr.error),
               next |-> "return"]
         [] OTHER ->
              [result |-> AddScore(AddIssue(r, sr.error), 10), next |-> "status"]

\* lines 239-263: the result after the SMTP and catch-all adjustments, and
\* whether verify_email returns at once ("return") or goes on ("status")
score_smtp(r, sr, catch_all) ==
  IF catch_all
  THEN LET r1 == AddScore(AddIssue(r,
                    "Catch-all domain - cannot verify individual mailbox"), -20)
       IN  CASE sr.exists = "TRUE" ->
                  [result |-> AddScore(r1, 10), next |-> "status"]
             [] sr.exists = "FALSE" ->
                  [result |-> AddIssue([r1 EXCEPT !.status = "invalid"],
                                       "Mailbox rejected even on catch-all domain"),
                   next |-> "return"]
             [] OTHER ->
                  [result |-> AddIssue(AddScore(r1, 5), sr.error), next |-> "status"]
  ELSE CASE sr.exists = "TRUE" ->
              [result |-> AddScore(r, 30), next |-> "status"]
         [] sr.exists = "FALSE" ->
              [result |-> AddIssue([r EXCEPT !.status = "invalid"], sr.error),
               next |-> "return"]
         [] OTHER ->
              [result |-> AddScore(AddIssue(r, sr.error), 10), next |-> "status"]

\* lines 239-263
ScoreSmtp ==
  /\ pc = "score"
  /\ result' = score_smtp(result, smtp_result, is_catch_all).result
  /\ pc' = score_smtp(result, smtp_result, is_catch_all).next
  /\ UNCHANGED <<email, calls>>
  /\ UNCHANGED batch_vars
  /\ UNCHANGED local_vars
  /\ UNCHANGED smtp_vars

\* a threshold bug: the risky band is missing
StatusOfNoRisky(score) == IF score >= 75 THEN "valid" ELSE "invalid"

\* lines 271-276
StatusOf(score) ==
  IF score >= 75 THEN "valid"
  ELSE IF score >= 45 THEN "risky"
  ELSE "invalid"

\* lines 265-276
FinalStatus ==
  /\ pc = "status"
  /\ LET domain == domain_of(email)
         r == IF lower(domain) \in common_catch_all /\ is_catch_all
              THEN AddIssue(result, "uses catch-all - verification less reliable")
              ELSE result
     IN  result' = [r EXCEPT !.status = StatusOf(r.score)]
  /\ pc' = "return"
  /\ UNCHANGED <<email, calls>>
  /\ UNCHANGED batch_vars
  /\ UNCHANGED local_vars
  /\ UNCHANGED smtp_vars

\* ------------------------------------------------------------------------
\* Specifications
\* ------------------------------------------------------------------------

\* a request of at most one address, against every network answer
Next ==
  \/ HandleRequest
  \/ NextEmail
  \/ Respond
  \/ ReturnResult
  \/ CheckSyntax
  \/ CheckDisposable
  \/ CheckRoleBased
  \/ \E out \in {"ok"} \cup ResolverErrors : CheckDns(out)
  \/ \E out \in MxOutcomes(MxAnswers, ResolverErrors) : CheckMx(out)
  \/ CallVerifySmtp
  \/ \E ev \in Events(GreetingCodes, NetworkExceptions) : SmtpConnect(ev)
  \/ \E ev \in Events(HeloCodes, NetworkExceptions) : SmtpHelo(ev)
  \/ \E ev \in Events(MailCodes, NetworkExceptions) : SmtpMail(ev)
  \/ \E ev \in RcptEvents(RcptCodes, NetworkExceptions) : SmtpRcpt(ev)
  \/ RecordSmtp
  \/ CallCatchAll
  \/ CatchAllReturn
  \/ ScoreSmtp
  \/ FinalStatus

Spec == Init /\ [][Next]_vars

\* the answers explored for each address of a batch
BatchMxAnswers == {<< [preference |-> 10, exchange |-> <<"m","1",".">>] >>}
BatchRcptCodes == {250, 550, 450}

\* a request of at most MaxBatch addresses
NextBatch ==
  \/ HandleRequest
  \/ NextEmail
  \/ Respond
  \/ ReturnResult
  \/ CheckSyntax
  \/ CheckDisposable
  \/ CheckRoleBased
  \/ \E out \in {"ok", "NXDOMAIN"} : CheckDns(out)
  \/ \E out \in MxOutcomes(BatchMxAnswers, {"NoAnswer"}) : CheckMx(out)
  \/ CallVerifySmtp
  \/ \E ev \in Events({220}, {"socket.timeout"}) : SmtpConnect(ev)
  \/ \E ev \in Events({250}, {}) : SmtpHelo(ev)
  \/ \E ev \in Events({250}, {}) : SmtpMail(ev)
  \/ \E ev \in Events(BatchRcptCodes, {"SMTPServerDisconnected"}) : SmtpRcpt(ev)
  \/ RecordSmtp
  \/ CallCatchAll
  \/ CatchAllReturn
  \/ ScoreSmtp
  \/ FinalStatus

SpecBatch == InitBatch /\ [][NextBatch]_vars

\* validate_syntax on its own: verify_email called with any string of at most
\* MaxAddrLen characters over an alphabet that holds a letter, the
\* separators of the pattern and the newline that '$' lets through
MaxAddrLen == 6

SyntaxAlphabet == {"a", "@", ".", "-", "\n"}

SyntaxInputs == UNION {[1..n -> SyntaxAlphabet] : n \in 1..MaxAddrLen}

\* lines 167-174: verify_email(s) has built its result and is at the syntax
\* check
InitSyntax ==
  \E s \in SyntaxInputs :
     /\ emails = <<s>>
     /\ i = 1
     /\ results = <<>>
     /\ response = NoResponse
     /\ pc = "syntax"
     /\ email = s
     /\ result = [email |-> s, status |-> "unknown", score |-> 0,
                  checks |-> <<>>, issues |-> <<>>]
     /\ dns_result = NoDns
     /\ mx_result = NoMx
     /\ mx_host = <<>>
     /\ smtp_result = NoSmtp
     /\ is_catch_all = FALSE
     /\ catch_result = NoSmtp
     /\ probe = "none"
     /\ conn = "none"
     /\ wire = <<>>
     /\ calls = <<>>

NextSyntax == CheckSyntax

SpecSyntax == InitSyntax /\ [][NextSyntax]_vars

\* ------------------------------------------------------------------------
\* Properties
\* ------------------------------------------------------------------------

\* the results verify_email has returned: the one being returned now and the
\* ones the handler has collected
Returned ==
  {results[k] : k \in 1..Len(results)} \cup (IF pc = "return" THEN {result} ELSE {})

IssuesOf(r) == {r.issues[k] : k \in 1..Len(r.issues)}

\* the last entry of the current dialogue
LastWire == wire[Len(wire)]

\* C1: the score of every result verify_email returns, early returns
\* included, is an integer in [0,100].
C1_ScoreInRange == \A r \in Returned : r.score \in 0..100

\* C2: when the handler has answered a batch of N >= 1 addresses, the answer
\* holds exactly N results and the k-th is the verdict for the k-th address.
C2_OneResultPerAddress ==
  (pc = "done" /\ Len(emails) >= 1) =>
     /\ response.http = 200
     /\ Len(response.results) = Len(emails)
     /\ \A k \in 1..Len(emails) : response.results[k].email = strip(emails[k])

\* the probe of the address itself has ended in a connection failure (no
\* reply code, no reply text) and verify_email has gone on from it
RealProbeFailed ==
  /\ smtp_result.exists = "UNKNOWN"
  /\ smtp_result.code = NoneCode
  /\ smtp_result.message = NoneMsg
  /\ pc # "record"

\* C3: after a connection failure of the address's probe, verify_email goes
\* on to a result with checks.smtp = UNKNOWN and the probe's error among the
\* issues, and the request is not aborted: the results collected so far are
\* kept and the handler does not answer with an error.
C3_ProbeFailureIsContained ==
  RealProbeFailed =>
     /\ HasCheck(result, "smtp") /\ result.checks.smtp = "UNKNOWN"
     /\ pc \in {"status", "return"} => smtp_result.error \in IssuesOf(result)
     /\ response.http # 500
     /\ pc # "done"

\* C4: for an address that fails the syntax check, verify_email starts no
\* network operation and returns status invalid with score 0.
C4_BadSyntaxIsLocal ==
  (email # <<>> /\ ~validate_syntax(email)) =>
     /\ calls = <<>>
     /\ pc \in {"syntax", "return", "loop", "done"}
     /\ pc # "syntax" => /\ result.status = "invalid"
                         /\ result.score = 0
                         /\ result.checks.syntax = FALSE

C4_Witness ==
  /\ pc = "return"
  /\ ~validate_syntax(email)
  /\ result.status = "invalid"
  /\ result.issues = <<"Invalid email format">>

\* the A lookup of the address being verified has failed
DnsFailed == dns_result.error \notin {"unset", "None"}

\* C5: when the A lookup fails, verify_email returns status invalid with
\* checks.dns = false and the resolver's error among the issues, and the A
\* lookup is the only network operation of that address.
C5_DnsFailureIsTerminal ==
  /\ DnsFailed =>
       /\ pc = "return"
       /\ result.status = "invalid"
       /\ result.checks.dns = FALSE
       /\ dns_result.error \in IssuesOf(result)
       /\ calls = <<"A">>
  /\ \A r \in Returned :
       (HasCheck(r, "dns") /\ r.checks.dns = FALSE) =>
          /\ r.status = "invalid"
          /\ DOMAIN r.checks = {"syntax", "disposable", "roleBased", "dns"}

C5_Witness ==
  /\ pc = "return"
  /\ dns_result.error = "Domain does not exist"
  /\ validate_syntax(email)
  /\ calls = <<"A">>
  /\ result.status = "invalid"

\* C6: when the probe of the address itself is rejected (exists = FALSE),
\* verify_email returns status invalid with checks.smtp = false, on a
\* catch-all domain or not: it never goes on to the thresholds and the
\* request is not aborted.
C6_RejectionIsTerminal ==
  /\ smtp_result.exists = "FALSE" => pc \notin {"status", "done"}
  /\ (smtp_result.exists = "FALSE" /\ pc = "return") =>
        result.status = "invalid" /\ result.checks.smtp = "FALSE"
  /\ \A r \in Returned :
       (HasCheck(r, "smtp") /\ r.checks.smtp = "FALSE") => r.status = "invalid"

C6_Witness ==
  /\ pc = "return"
  /\ smtp_result.exists = "FALSE"
  /\ is_catch_all
  /\ result.checks.roleBased
  /\ result.checks.disposable
  /\ result.status = "invalid"

\* a returned result that met no hard failure: every stage is recorded and
\* the address's probe was not a rejection
NoHardFailure(r) == HasCheck(r, "catchAll") /\ r.checks.smtp # "FALSE"

\* C7: a result returned without a hard failure has the status its score
\* gives: valid from 75, risky from 45 to 74, invalid below 45.
C7_StatusByThresholds ==
  \A r \in Returned :
     NoHardFailure(r) =>
        /\ r.score >= 75 => r.status = "valid"
        /\ (r.score >= 45 /\ r.score < 75) => r.status = "risky"
        /\ r.score < 45 => r.status = "invalid"

C7_Witness ==
  /\ pc = "return"
  /\ NoHardFailure(result)
  /\ result.status = "risky"
  /\ result.score = 60

\* C8: check_catch_all returns true only if the synthetic probe returned
\* exists = TRUE; on FALSE, on UNKNOWN and on a failed probe it returns
\* false, and checks.catchAll is what it returned.
C8_CatchAllFailsClosed ==
  [][pc = "catch_return" =>
       /\ is_catch_all' = (catch_result.exists = "TRUE")
       /\ result'.checks.catchAll = is_catch_all']_vars

\* the synthetic probe failed with an exception and the detector said no
C8_Witness ==
  /\ pc = "score"
  /\ wire # <<>>
  /\ LastWire.raised # "None"
  /\ ~is_catch_all
  /\ result.checks.catchAll = FALSE

\* what verify_smtp has just returned to its caller
ProbeReturned == IF pc = "record" THEN smtp_result ELSE catch_result

\* the dialogue ended with an RCPT reply whose code is in codes
RcptReplyIn(codes) ==
  LastWire.cmd = "RCPT" /\ LastWire.raised = "None" /\ LastWire.code \in codes

\* C9: verify_smtp returns exists = TRUE exactly when the RCPT reply code is
\* 250 or 251, exists = FALSE exactly when it is 550, 551, 553 or 554, and
\* otherwise (any other code, any failure) exists = UNKNOWN with an error.
C9_ClassificationIsExact ==
  pc \in {"record", "catch_return"} =>
     /\ ProbeReturned.exists = "TRUE" <=> RcptReplyIn({250, 251})
     /\ ProbeReturned.exists = "FALSE" <=> RcptReplyIn({550, 551, 553, 554})
     /\ ProbeReturned.exists \in {"TRUE", "FALSE", "UNKNOWN"}
     /\ ProbeReturned.exists = "UNKNOWN" => ProbeReturned.error \notin {"None", ""}

\* C10 as claimed: an uncertain probe adds 10 to the score, on a catch-all
\* domain too (where the penalty of 20 is taken once besides).
C10_UncertainAddsTen ==
  [][(pc = "score" /\ smtp_result.exists = "UNKNOWN") =>
        result'.score = result.score + 10 - (IF is_catch_all THEN 20 ELSE 0)]_vars

\* C10 as the code has it: an uncertain probe adds 10 when the domain is not
\* catch-all and 5 when it is (where the penalty of 20 is taken once
\* besides), and the pipeline goes on to the thresholds.
C10_UncertainCredit ==
  [][(pc = "score" /\ smtp_result.exists = "UNKNOWN") =>
        /\ result'.score = result.score + (IF is_catch_all THEN 5 - 20 ELSE 10)
        /\ pc' = "status"]_vars

C10_Witness ==
  /\ pc = "status"
  /\ smtp_result.exists = "UNKNOWN"
  /\ is_catch_all
  /\ result.score = 95 - 20 + 5

\* both the address and the synthetic address were accepted
BothAccepted(r) ==
  HasCheck(r, "catchAll") /\ r.checks.catchAll /\ r.checks.smtp = "TRUE"

\* C11: when the address and the synthetic address are both accepted, the
\* result has checks.catchAll = true, the scoring step changes the score
\* accumulated before the SMTP stage by +10 - 20 and goes on to the
\* thresholds, and the returned status is the one the thresholds give that
\* score, not invalid of itself.
C11_CatchAllPartialCredit ==
  /\ [][(pc = "score" /\ smtp_result.exists = "TRUE" /\ is_catch_all) =>
          /\ result'.score = result.score + 10 - 20
          /\ result'.checks.catchAll
          /\ pc' = "status"]_vars
  /\ [](\A r \in Returned :
          BothAccepted(r) =>
             /\ r.score >= 75 => r.status = "valid"
             /\ (r.score >= 45 /\ r.score < 75) => r.status = "risky"
             /\ r.score < 45 => r.status = "invalid")

C11_Witness ==
  /\ pc = "return"
  /\ BothAccepted(result)
  /\ smtp_result.exists = "TRUE"
  /\ is_catch_all
  /\ result.score = 95 + 10 - 20
  /\ result.status = "valid"

\* the MX records the resolver can answer with, and the preference the
\* domain gives to a host (each host has one preference in MxAnswers)
AllMxRecords ==
  UNION {{a[k] : k \in 1..Len(a)} : a \in MxAnswers \cup BatchMxAnswers}

PreferenceOf(host) ==
  (CHOOSE rec \in AllMxRecords : rstrip_dot(rec.exchange) = host).preference

\* C12: after a successful MX lookup the host list is in ascending order of
\* preference, and the host the probes connect to is one of lowest
\* preference value.
C12_MxSortedByPreference ==
  /\ mx_result.has_mx =>
       \A j, k \in 1..Len(mx_result.mx_hosts) :
          j < k => PreferenceOf(mx_result.mx_hosts[j]) <=
                     PreferenceOf(mx_result.mx_hosts[k])
  /\ (mx_result.has_mx /\ mx_host # <<>>) =>
       \A k \in 1..Len(mx_result.mx_hosts) :
          PreferenceOf(mx_host) <= PreferenceOf(mx_result.mx_hosts[k])

\* the mail host did not answer the probe of the address itself: the
\* dialogue ended in socket.timeout and verify_email has gone on from it
HostHung ==
  /\ wire # <<>>
  /\ LastWire.raised = "socket.timeout"
  /\ smtp_result.error = "Connection timeout"
  /\ pc # "record"

\* C13: when the mail host of one address never answers, the request is not
\* aborted (the results collected for the other addresses are kept and the
\* handler answers with one result per address), and the hung address gets
\* a result of status invalid with a verification-timeout issue.
C13_HungHostIsContained ==
  HostHung =>
     /\ response.http # 500
     /\ pc = "done" => /\ response.http = 200
                       /\ Len(response.results) = Len(emails)
     /\ pc = "return" => /\ result.status = "invalid"
                         /\ "Verification timeout" \in IssuesOf(result)

\* the scores of the results verify_email returns on a hard failure: 0 for
\* bad syntax, the score of the flags alone (45, 25, 0, -20) on a failed A
\* lookup, 25 more on a failed MX lookup, 50 more on a rejected address and
\* 30 more on an address rejected by a catch-all domain
HardFailureScores ==
  {0} \cup {45, 25, -20} \cup {70, 50, 5} \cup {95, 75, 30} \cup {55, 10}

\* the one status every returned result of a given score has
StatusByScore(score) ==
  IF score \in HardFailureScores THEN "invalid" ELSE StatusOf(score)

\* C14: over all results verify_email returns, hard failures included, the
\* status is a function of the final score: the status of a returned result
\* is the one StatusByScore gives its score, so two returned results of the
\* same score have the same status.
C14_StatusIsFunctionOfScore ==
  \A r \in Returned :
     /\ r.status = StatusByScore(r.score)
     /\ ~NoHardFailure(r) => r.score \in HardFailureScores
     /\ NoHardFailure(r) => r.status = StatusOf(r.score)

C14_Witness ==
  /\ pc = "return"
  /\ ~NoHardFailure(result)
  /\ result.score = 95
  /\ StatusOf(result.score) = "valid"
  /\ result.status = "invalid"

\* the server has answered HELO or MAIL FROM of the current probe with a
\* reply that is not 2xx
EnvelopeRefused ==
  \E k \in 1..Len(wire) :
     /\ wire[k].cmd \in {"HELO", "MAIL"}
     /\ wire[k].raised = "None"
     /\ wire[k].code \notin 200..299

\* C15: within verify_smtp, once the server has answered HELO or MAIL FROM
\* with a non-2xx reply the probe is aborted: no RCPT TO is sent on that
\* connection, and what verify_smtp returns is exists = UNKNOWN without a
\* reply code, never the classification of a later RCPT reply.
C15_RefusedEnvelopeAborts ==
  EnvelopeRefused =>
     /\ \A k \in 1..Len(wire) : wire[k].cmd # "RCPT"
     /\ pc \in {"record", "catch_return"} =>
          /\ ProbeReturned.exists = "UNKNOWN"
          /\ ProbeReturned.code = NoneCode

\* the MX lookup of the address being verified has been made and has
\* yielded no host to probe
NoUsableHost ==
  /\ mx_result.error # "unset"
  /\ \/ mx_result.error # "None"
     \/ ~mx_result.has_mx
     \/ mx_result.mx_hosts = <<>>

CallOrder == <<"A", "MX", "SMTP", "SMTP-CATCHALL">>

IsPrefix(s, t) == Len(s) <= Len(t) /\ \A k \in 1..Len(s) : s[k] = t[k]

\* C17: for one address the pipeline makes each lookup and each probe at
\* most once and in the order A, MX, probe of the address, probe of the
\* synthetic address (nothing is repeated, whatever a reply or a failure
\* was); the scoring step is reached only with both probes made, and once
\* the address has been probed the score changes in the scoring step alone,
\* where both outcomes are known.
C17_OneProbeEachInOrder ==
  /\ [](IsPrefix(calls, CallOrder))
  /\ [](pc \in {"score", "status"} =>
          /\ calls = CallOrder
          /\ smtp_result.exists # "unset"
          /\ HasCheck(result, "catchAll"))
  /\ [][(result'.score # result.score /\ Len(calls') >= 3) =>
          /\ pc = "score"
          /\ calls = CallOrder]_vars

C17_Witness ==
  /\ pc = "status"
  /\ smtp_result.code = 450
  /\ smtp_result.exists = "UNKNOWN"
  /\ calls = CallOrder
  /\ result.score = 95 + 10

\* verify_smtp is running: between its call and its return
InVerifySmtp == pc \in {"smtp_connect", "smtp_helo", "smtp_mail", "smtp_rcpt"}

\* C18: on every exit path of verify_smtp the connection to the mail host is
\* closed before it returns: a connection is open only while verify_smtp is
\* running, the step in which verify_smtp returns leaves the connection
\* closed whatever the dialogue ended in, and no connection is open when
\* verify_email returns its result or the handler has answered.
C18_ConnectionClosedOnReturn ==
  /\ [](conn = "open" => InVerifySmtp)
  /\ [](pc \in {"record", "catch_return", "return", "loop", "done"} => conn # "open")
  /\ [][(InVerifySmtp /\ ~InVerifySmtp') => conn' = "closed"]_vars

C18_Witness ==
  /\ pc = "record"
  /\ conn = "closed"
  /\ Len(wire) >= 3
  /\ LastWire.raised = "SMTPServerDisconnected"

\* validate_syntax has accepted the address verify_email was called with
SyntaxAccepted ==
  /\ pc = "disposable"
  /\ HasCheck(result, "syntax")
  /\ result.checks.syntax

\* the labels of the domain of an accepted address
DomainLabels(e) == split(domain_of(e), ".")

\* C19 as stated: validate_syntax accepts an address only if its domain has
\* at least two dot-separated labels and its top label has at least two
\* characters.
C19_TwoLabelsAndLongTopLabel ==
  SyntaxAccepted =>
     /\ Len(DomainLabels(email)) >= 2
     /\ Len(DomainLabels(email)[Len(DomainLabels(email))]) >= 2

\* e without the one newline that may end it
WithoutFinalNewline(e) ==
  IF e # <<>> /\ e[Len(e)] = "\n" THEN SubSeq(e, 1, Len(e) - 1) ELSE e

\* C19 amended: validate_syntax accepts an address only if, one final
\* newline aside, it holds exactly one "@" with a non-empty local part of
\* the permitted characters before it and, after it, a non-empty domain of
\* letters, digits, hyphens and dots in which every label (the stretch
\* between two dots) is non-empty and begins and ends with a letter or a
\* digit.  Neither a second label nor a top label of two characters is
\* required.
C19_AcceptedGrammar ==
  SyntaxAccepted =>
     LET b == WithoutFinalNewline(email)
         ats == {k \in 1..Len(b) : b[k] = "@"}
     IN  /\ Cardinality(ats) = 1
         /\ \A at \in ats :
              /\ at > 1
              /\ at < Len(b)
              /\ \A k \in 1..(at - 1) : b[k] \in AlnumChars \cup LocalPunctChars
              /\ \A k \in (at + 1)..Len(b) : b[k] \in AlnumChars \cup {"-", "."}
              /\ b[at + 1] \in AlnumChars
              /\ b[Len(b)] \in AlnumChars
              /\ \A k \in (at + 1)..Len(b) :
                   b[k] = "." => /\ b[k - 1] \in AlnumChars
                                 /\ b[k + 1] \in AlnumChars

C19_Witness ==
  /\ SyntaxAccepted
  /\ email = <<"a", "@", "a">>
  /\ Len(DomainLabels(email)) = 1

====
